---- MODULE Spec2Model ----
(***************************************************************************)
(* Session-transport layer of the Runway MCP gateway (src/server.ts).      *)
(*                                                                         *)
(* The model follows the /mcp route handler statement by statement.  One   *)
(* handler invocation is cut at its two awaits (server.connect and         *)
(* transport.handleRequest); every piece between two awaits is one atomic  *)
(* action, because Node runs it to completion on its single thread.        *)
(*                                                                         *)
(* The MCP SDK objects (McpServer, StreamableHTTPServerTransport) are not  *)
(* part of the repository.  They are modelled by what the handler relies   *)
(* on: the transport answers a request itself (HandleStatus), keeps an     *)
(* "initialized" flag, ends its open streams when closed, and its close()  *)
(* is an async method, so a failing close is a rejected promise.           *)
(*                                                                         *)
(* randomUUID() is modelled as a generator of fresh identifiers: the n-th  *)
(* minted identifier is the number n.  Clients can send the identifiers    *)
(* they were given, no identifier, or a forged one.                        *)
(***************************************************************************)
EXTENDS Integers, FiniteSets, Sequences, TLC

\* ------------------------------------------------------------------ bounds
MaxReq == 2
MaxIds == 2

Reqs == 1..MaxReq
Objs == 1..MaxIds

\* --------------------------------------------------------------- constants
\* (req.headers["mcp-session-id"] as string) || ""  : the absent header
NoId == 0
\* an identifier the router never minted (a guess or a stale value)
ForgedId == 0 - 1

\* enableDnsRebindingProtection: false
EnableDnsRebindingProtection == FALSE

Methods == {"POST", "GET", "DELETE"}
\* what express.json() hands to the handler as req.body
Bodies == {"init", "call", "malformed", "none"}
Kinds == {<<"POST", "init">>, <<"POST", "call">>, <<"POST", "malformed">>,
          <<"GET", "none">>, <<"DELETE", "none">>}
\* the media types named by the Accept header
BothTypes == {"application/json", "text/event-stream"}
Accepts == {BothTypes, {"application/json"}, {"text/event-stream"}}
\* the Accept header of a request, and whether its Origin and Host are on
\* the allow-lists (ALLOWED_ORIGINS, ALLOWED_HOSTS, no wildcard entry)
Profiles == {<<a, TRUE>> : a \in Accepts}
\* the requests that pass the accept check and come from an allowed origin
GoodProfiles == {<<BothTypes, TRUE>>}
\* with the requests whose Origin or Host is not allowed
GuardProfiles == {<<BothTypes, TRUE>>, <<BothTypes, FALSE>>}
\* the outcomes of a close(): FALSE it succeeds, TRUE it fails
NoFaults == {FALSE}
AnyFault == BOOLEAN

VARIABLES
    sessions,   \* the registry: identifier -> [server, transport]
    obj,        \* per created engine/transport pair: initialized, closed flags
    nextId,     \* number of identifiers minted so far, plus one
    req,        \* per request slot: the handler's position, locals, response
    hist,       \* history of each minted identifier (for the properties)
    ev          \* the last step taken: its inputs and its outcome

vars == <<sessions, obj, nextId, req, hist, ev>>

\* ---------------------------------------------------------- pure helpers

\* the accept check written with || between the two tests
AcceptsEither(accept) ==
    "application/json" \in accept \/ "text/event-stream" \in accept

\* acceptHeader.includes("application/json") && includes("text/event-stream")
AcceptsBoth(accept) ==
    "application/json" \in accept /\ "text/event-stream" \in accept

\* req.method === "POST" && typeof req.body === "object" && req.body &&
\* isInitializeRequest(req.body)
IsInit(method, body) == method = "POST" /\ body = "init"

\* a router that resolves a new session only when the header is missing
OnlyWithoutHeader(hdr, isInit) == hdr = NoId

\* a router that creates a session for a handshake only
OnlyOnHandshake(hdr, isInit) == isInit

\* if (!sessionId || isInit)
NeedsNewSession(hdr, isInit) == hdr = NoId \/ isInit

\* a router that keeps the identifier the client sent when there is one
KeepClientId(hdr, fresh) == IF hdr # NoId THEN hdr ELSE fresh

\* a generator that hands out the identifier it issued last once more
ReissuedSessionId(hdr, fresh) == IF fresh > 1 THEN fresh - 1 ELSE fresh

\* sessionId = randomUUID()
NewSessionId(hdr, fresh) == fresh

\* a handler that registers no close observer
NoCloseObserver(created) == FALSE

\* res.on("close", ...) is registered in the branch that creates the session
RegistersCloseObserver(created) == created

\* a handler without the DELETE branch
NeverTermination(method) == FALSE

\* if (req.method === "DELETE")
IsTermination(method) == method = "DELETE"

\* cors({origin: [...]}) : the middleware never rejects a request, it only
\* leaves out the Access-Control-Allow-Origin header; the request goes on.
CorsPasses(allowed) == TRUE

\* the transport's own header validation, switched off by
\* enableDnsRebindingProtection: false
ValidateRequestHeaders(allowed) ==
    IF EnableDnsRebindingProtection THEN allowed ELSE TRUE

\* The answer of transport.handleRequest, from the request and the
\* transport's state: hdrsOk is the outcome of its header validation, tsid
\* the identifier its generator returns.
HandleStatus(method, body, hdr, hdrsOk, initialized, tsid) ==
    IF ~hdrsOk THEN "forbidden"
    ELSE IF method = "POST" /\ body = "malformed" THEN "badRequest"
    ELSE IF IsInit(method, body)
         THEN (IF initialized THEN "badRequest" ELSE "ok")
    ELSE IF ~initialized THEN "badRequest"
    ELSE IF hdr = NoId THEN "badRequest"
    ELSE IF hdr # tsid THEN "notFound"
    ELSE "ok"

\* a catch block that writes its envelope whatever has been sent
AlwaysWrites(headersSent) == TRUE

\* catch (err) { if (!res.headersSent) res.status(500).json(...) }
CatchWrites(headersSent) == ~headersSent

\* transport.close(); server.close();  inside try { } catch { }: both are
\* async methods, called without await.  A failing close is a rejected
\* promise: the catch block never sees it, and it surfaces as an unhandled
\* rejection outside the handler.
TeardownPropagates(closeFails) == closeFails

\* ------------------------------------------------------------------ tools
\* registerRunwayTools: the five tools and their handlers.

GenerationTools == {"runway.text_to_image", "runway.image_to_video",
                    "runway.video_upscale"}
Tools == GenerationTools \cup {"runway.tasks.retrieve", "runway.tasks.cancel"}

\* what becomes of the upstream work: the call succeeds, the task it
\* started or looked up has failed, or the call itself cannot be made
Fates == {"succeeds", "taskFails", "callThrows"}

\* if (!wait) return the task id;  otherwise  waitForTaskOutput(...)
\* tasks.cancel has no wait argument
WaitsForTaskOutput(tool, wait) ==
    IF tool = "runway.tasks.cancel" THEN FALSE ELSE wait

\* what the body of the handler's try block raises: only waitForTaskOutput
\* raises TaskFailedError, any upstream call may throw another error
Raised(tool, wait, fate) ==
    IF fate = "callThrows" THEN "Error"
    ELSE IF fate = "taskFails" /\ WaitsForTaskOutput(tool, wait)
         THEN "TaskFailedError"
    ELSE "none"

\* if (err instanceof TaskFailedError)  is in the catch of the three
\* generation tools only
HandlesTaskFailed(tool) == tool \in GenerationTools

\* a handler whose catch block passes the error on
ToolRethrows(tool, err) == [shape |-> "none", isError |-> FALSE, thrown |-> TRUE]

\* catch (err) { ... return { content: [...], isError: true } }
ToolCatch(tool, err) ==
    IF err = "TaskFailedError" /\ HandlesTaskFailed(tool)
    THEN [shape |-> "TaskFailed", isError |-> TRUE, thrown |-> FALSE]
    ELSE [shape |-> "ErrorText", isError |-> TRUE, thrown |-> FALSE]

\* async (args) => { try { ... return { content } } catch { ... } }
ToolHandler(tool, wait, fate) ==
    LET err == Raised(tool, wait, fate)
    IN IF err = "none"
       THEN [shape |-> "content", isError |-> FALSE, thrown |-> FALSE]
       ELSE ToolCatch(tool, err)

NoCall == [tool |-> "none", wait |-> FALSE, fate |-> "none", raised |-> "none",
           shape |-> "none", isError |-> FALSE, thrown |-> FALSE]

\* ------------------------------------------------------------ state helpers

IdleSlot == [pc |-> "idle", method |-> "GET", body |-> "none", hdr |-> NoId,
             hdrsOk |-> TRUE, sid |-> NoId, tr |-> 0, creator |-> FALSE,
             res |-> "none", sent |-> FALSE, rejects |-> FALSE,
             status |-> "none"]

\* the request object is not used after the dispatch: the slot keeps the
\* method (for the DELETE test), and for a creating request what its close
\* observer and the properties need
AfterDispatch(me) ==
    [me EXCEPT !.hdr = IF me.creator THEN NoId ELSE me.hdr,
               !.hdrsOk = TRUE,
               !.body = IF me.creator THEN me.body ELSE "none",
               !.status = IF me.creator THEN me.status ELSE "none"]

NoEvent == [op |-> "none", method |-> "GET", body |-> "none", accept |-> {},
            hdr |-> NoId, allowed |-> TRUE, sid |-> NoId, tr |-> 0,
            status |-> "none", created |-> FALSE, before |-> {},
            rejected |-> FALSE, torn |-> FALSE, closeFailed |-> FALSE,
            unhandled |-> FALSE, call |-> NoCall, responses |-> 0,
            finished |-> FALSE]

\* sessions[sessionId] = { server, transport }
Put(s, k, v) == [x \in DOMAIN s \cup {k} |-> IF x = k THEN v ELSE s[x]]

\* a teardown that empties the registry
ClearRegistry(s, k) == [x \in {} |-> s[x]]

\* delete sessions[sessionId]
Remove(s, k) == [x \in DOMAIN s \ {k} |-> s[x]]

\* transport.close() ends every response stream the transport holds
EndStreams(sl, n) ==
    [q \in DOMAIN sl |-> IF sl[q].tr = n /\ sl[q].res = "stream"
                    THEN [sl[q] EXCEPT !.res = "ended"] ELSE sl[q]]

CloseBoth(o, n) ==
    IF n \in DOMAIN o
    THEN [o EXCEPT ![n] = [@ EXCEPT !.tClosed = TRUE, !.sClosed = TRUE]]
    ELSE o

\* a slot is free again once its handler has returned and its response is
\* over (a response without close observer is over when it has ended)
Release(sl) ==
    [q \in DOMAIN sl |->
        IF sl[q].pc = "done" /\
           (sl[q].res = "closed" \/ (sl[q].res = "ended" /\ ~sl[q].creator))
        THEN IdleSlot ELSE sl[q]]

FirstIdle == CHOOSE r \in DOMAIN req :
                 req[r].pc = "idle" /\ \A q \in DOMAIN req : req[q].pc = "idle" => r <= q

Headers == {NoId, ForgedId} \cup 1..(nextId - 1)

Init ==
    /\ sessions = [k \in {} |-> 0]
    /\ obj = [n \in Objs |-> [init |-> FALSE, tClosed |-> FALSE,
                              sClosed |-> FALSE]]
    /\ nextId = 1
    /\ req = [r \in Reqs |-> IdleSlot]
    /\ hist = [n \in Objs |-> "none"]
    /\ ev = NoEvent

\* ----------------------------------------------------------------- actions

\* const { server, transport } = sessions[sessionId];
\* await transport.handleRequest(req, res, req.body);      (up to the await)
\* A missing record makes the destructuring throw a TypeError, which the
\* handler's catch turns into the 500 "Internal server error" envelope.
\* For DELETE the transport closes itself before it answers; if that close
\* fails, handleRequest rejects and nothing has been written yet.
Dispatch(r, me, e, closeFails) ==
    IF me.sid \notin DOMAIN sessions
    THEN LET writes == CatchWrites(me.sent)
         IN /\ req' = Release([req EXCEPT ![r] = AfterDispatch(
                          [me EXCEPT !.pc = "done",
                                     !.res = IF me.res = "closed" THEN "closed"
                                             ELSE IF writes THEN "ended" ELSE me.res,
                                     !.sent = me.sent \/ writes,
                                     !.status = IF writes THEN "internalError"
                                                ELSE me.status])])
            /\ obj' = obj
            /\ ev' = [e EXCEPT !.status = IF writes THEN "internalError" ELSE "none",
                               !.responses = IF writes THEN 1 ELSE 0,
                               !.finished = TRUE]
    ELSE LET n == sessions[me.sid].transport
             st == HandleStatus(me.method, me.body, me.hdr, me.hdrsOk,
                                obj[n].init, me.sid)
             closes == IsTermination(me.method) /\ st = "ok"
             fails == closes /\ closeFails
             opens == st = "ok" /\ me.method \in {"POST", "GET"}
             newRes == IF me.res = "closed" THEN "closed"
                       ELSE IF opens THEN "stream"
                       ELSE IF fails THEN "none"
                       ELSE "ended"
             mine == [me EXCEPT !.pc = "handling", !.tr = n, !.res = newRes,
                                !.sent = ~fails, !.rejects = fails,
                                !.status = IF fails THEN "none" ELSE st]
             slots == [req EXCEPT ![r] = AfterDispatch(mine)]
         IN /\ obj' = [obj EXCEPT ![n] =
                          [@ EXCEPT !.init = @ \/ (st = "ok" /\ IsInit(me.method, me.body)),
                                    !.tClosed = @ \/ closes]]
            /\ req' = Release(IF closes THEN EndStreams(slots, n) ELSE slots)
            /\ ev' = [e EXCEPT !.status = mine.status, !.tr = n,
                               !.closeFailed = fails,
                               !.responses = IF fails THEN 0 ELSE 1]

\* app.all("/mcp", ...) from its first line to its first await
Receive(r, profiles, faults) ==
    /\ \E q \in DOMAIN req : req[q].pc = "idle"
    /\ r = FirstIdle
    /\ \E k \in Kinds, p \in profiles, hdr \in Headers :
       \E closeFails \in (IF IsTermination(k[1]) THEN faults ELSE {FALSE}) :
        LET method == k[1]
            body == k[2]
            accept == p[1]
            allowed == p[2]
            isInit == IsInit(method, body)
            \* the request as far as the accept check reads it
            e0 == [NoEvent EXCEPT !.op = "Receive", !.method = method,
                                  !.accept = accept, !.allowed = allowed,
                                  !.before = DOMAIN sessions]
            e == [e0 EXCEPT !.body = body, !.hdr = hdr]
            \* the request's headers do not change while it is served: the
            \* transport's validation of them has the same outcome whenever
            \* the dispatch gets to it
            me == [IdleSlot EXCEPT !.method = method, !.body = body, !.hdr = hdr,
                                   !.hdrsOk = ValidateRequestHeaders(allowed)]
        IN IF ~CorsPasses(allowed)
           THEN /\ ev' = [e0 EXCEPT !.status = "forbidden", !.responses = 1,
                                     !.finished = TRUE]
                /\ UNCHANGED <<sessions, obj, nextId, req, hist>>
           ELSE IF ~AcceptsBoth(accept)
           THEN /\ ev' = [e0 EXCEPT !.status = "notAcceptable",
                                     !.responses = 1, !.finished = TRUE]
                /\ UNCHANGED <<sessions, obj, nextId, req, hist>>
           ELSE IF NeedsNewSession(hdr, isInit)
           THEN LET key == NewSessionId(hdr, nextId)
                    n == nextId
                IN /\ nextId <= MaxIds
                   /\ sessions' = Put(sessions, key, [server |-> n, transport |-> n])
                   /\ req' = [req EXCEPT ![r] =
                                 [me EXCEPT !.pc = "connecting", !.sid = key,
                                            !.tr = n,
                                            !.creator = RegistersCloseObserver(TRUE)]]
                   /\ hist' = [hist EXCEPT ![n] = IF allowed THEN "open" ELSE "gone"]
                   /\ nextId' = nextId + 1
                   /\ ev' = [e EXCEPT !.sid = key, !.tr = n, !.created = TRUE]
                   /\ obj' = obj
           ELSE /\ Dispatch(r, [me EXCEPT !.sid = hdr], [e EXCEPT !.sid = hdr],
                            closeFails)
                /\ hist' = IF method = "DELETE" /\ hdr \in DOMAIN hist
                              /\ (hist[hdr] = "served" \/ ~allowed)
                           THEN [hist EXCEPT ![hdr] = "gone"] ELSE hist
                /\ UNCHANGED <<sessions, nextId>>

\* the handler resumes after  await sessions[sessionId].server.connect(transport)
ConnectReturn(r, faults) ==
    /\ req[r].pc = "connecting"
    /\ \E closeFails \in (IF IsTermination(req[r].method) THEN faults ELSE {FALSE}) :
         Dispatch(r, req[r],
                  [NoEvent EXCEPT !.op = "ConnectReturn", !.method = req[r].method,
                                  !.body = req[r].body, !.sid = req[r].sid,
                                  !.before = DOMAIN sessions],
                  closeFails)
    /\ UNCHANGED <<sessions, nextId, hist>>

\* the handler resumes after  await transport.handleRequest(...):
\* the DELETE teardown, or the catch block when the dispatch failed
HandleReturn(r, faults) ==
    /\ req[r].pc = "handling"
    /\ LET me == req[r]
           e == [NoEvent EXCEPT !.op = "HandleReturn", !.method = me.method,
                                !.hdr = me.hdr, !.sid = me.sid,
                                !.tr = me.tr, !.before = DOMAIN sessions]
           writes == CatchWrites(me.sent)
           count == (IF me.sent THEN 1 ELSE 0) + (IF writes THEN 1 ELSE 0)
       IN IF me.rejects
          THEN \* catch (err): if (!res.headersSent) res.status(500).json(...)
               /\ req' = Release([req EXCEPT ![r] =
                            [me EXCEPT !.pc = "done",
                                       !.res = IF me.res = "none" /\ writes
                                               THEN "ended" ELSE me.res,
                                       !.sent = me.sent \/ writes,
                                       !.status = IF writes
                                                  THEN "internalError" ELSE me.status]])
               /\ hist' = IF hist[me.tr] = "open"
                          THEN [hist EXCEPT ![me.tr] = "gone"] ELSE hist
               /\ ev' = [e EXCEPT !.rejected = TRUE,
                                  !.status = IF writes THEN "internalError" ELSE "none",
                                  !.responses = count, !.finished = TRUE]
               /\ UNCHANGED <<sessions, obj, nextId>>
          ELSE IF IsTermination(me.method)
          THEN \E closeFails \in faults :
               /\ obj' = CloseBoth(obj, me.tr)
               /\ sessions' = Remove(sessions, me.sid)
               /\ req' = Release(EndStreams([req EXCEPT ![r].pc = "done"], me.tr))
               /\ hist' = IF hist[me.tr] = "gone" THEN hist
                          ELSE [hist EXCEPT ![me.tr] = "deleted"]
               /\ ev' = [e EXCEPT !.torn = TRUE, !.closeFailed = closeFails,
                                  !.unhandled = TeardownPropagates(closeFails),
                                  !.responses = IF me.sent THEN 1 ELSE 0,
                                  !.finished = TRUE]
               /\ nextId' = nextId
          ELSE /\ req' = Release([req EXCEPT ![r].pc = "done"])
               /\ ev' = [e EXCEPT !.responses = IF me.sent THEN 1 ELSE 0,
                                  !.finished = TRUE]
               /\ UNCHANGED <<sessions, obj, nextId, hist>>

\* the protocol engine has sent the last answer of a POST: the stream ends
StreamEnd(r) ==
    /\ req[r].res = "stream"
    /\ req[r].method = "POST"
    /\ req' = Release([req EXCEPT ![r].res = "ended"])
    /\ ev' = [NoEvent EXCEPT !.op = "StreamEnd", !.method = req[r].method,
                             !.sid = req[r].sid, !.tr = req[r].tr,
                             !.before = DOMAIN sessions]
    /\ UNCHANGED <<sessions, obj, nextId, hist>>

\* the response emits "close"; the observer of the request that created a
\* session runs  transport.close(); server.close(); delete sessions[sessionId]
Close(r, op, faults) ==
    LET me == req[r]
        e == [NoEvent EXCEPT !.op = op, !.method = me.method, !.body = me.body,
                             !.sid = me.sid, !.tr = me.tr,
                             !.before = DOMAIN sessions]
        handshake == op = "ResClose" /\ IsInit(me.method, me.body)
                        /\ me.status = "ok" /\ me.pc = "done"
    IN IF me.creator
       THEN \E closeFails \in faults :
            /\ obj' = CloseBoth(obj, me.tr)
            /\ sessions' = Remove(sessions, me.sid)
            /\ req' = Release(EndStreams([req EXCEPT ![r].res = "closed"], me.tr))
            /\ hist' = IF hist[me.tr] = "open"
                       THEN [hist EXCEPT ![me.tr] =
                                IF handshake THEN "served" ELSE "gone"]
                       ELSE hist
            /\ ev' = [e EXCEPT !.torn = TRUE, !.closeFailed = closeFails,
                               !.unhandled = TeardownPropagates(closeFails)]
            /\ nextId' = nextId
       ELSE /\ req' = Release([req EXCEPT ![r].res = "closed"])
            /\ ev' = e
            /\ UNCHANGED <<sessions, obj, nextId, hist>>

\* "close" after the response has finished
ResClose(r, faults) ==
    /\ req[r].pc # "idle"
    /\ req[r].res = "ended"
    /\ Close(r, "ResClose", faults)

\* "close" because the client went away before the response finished
Abort(r, faults) ==
    /\ req[r].pc # "idle"
    /\ req[r].res \in {"none", "stream"}
    /\ Close(r, "Abort", faults)

\* transport.handleRequest fails after it has opened the response: the
\* promise the handler awaits at line 113 will reject, with headers sent
DispatchFault(r) ==
    /\ req[r].pc = "handling"
    /\ req[r].res = "stream"
    /\ ~req[r].rejects
    /\ req' = [req EXCEPT ![r].rejects = TRUE]
    /\ ev' = [NoEvent EXCEPT !.op = "DispatchFault", !.method = req[r].method,
                             !.sid = req[r].sid, !.tr = req[r].tr,
                             !.before = DOMAIN sessions]
    /\ UNCHANGED <<sessions, obj, nextId, hist>>

\* the engine runs the handler of the tool a tools/call POST names, while
\* the router's handler waits for transport.handleRequest; the handler's
\* return value goes into the protocol answer
ToolCall(r) ==
    /\ req[r].pc = "handling"
    /\ req[r].res = "stream"
    /\ req[r].method = "POST"
    /\ ~req[r].creator
    /\ \E tool \in Tools, wait \in BOOLEAN, fate \in Fates :
         LET out == ToolHandler(tool, wait, fate)
         IN /\ ev' = [NoEvent EXCEPT
                        !.op = "ToolCall", !.method = req[r].method,
                        !.hdr = req[r].hdr, !.sid = req[r].sid,
                        !.tr = req[r].tr, !.before = DOMAIN sessions,
                        !.call = [tool |-> tool, wait |-> wait, fate |-> fate,
                                  raised |-> Raised(tool, wait, fate),
                                  shape |-> out.shape, isError |-> out.isError,
                                  thrown |-> out.thrown]]
            /\ req' = [req EXCEPT ![r].rejects = out.thrown]
    /\ UNCHANGED <<sessions, obj, nextId, hist>>

\* One step of the server, for the requests drawn from `profiles` and the
\* close outcomes drawn from `faults`.
Step(profiles, faults) ==
    \E r \in DOMAIN req :
        \/ Receive(r, profiles, faults)
        \/ ConnectReturn(r, faults)
        \/ HandleReturn(r, faults)
        \/ StreamEnd(r)
        \/ ResClose(r, faults)
        \/ Abort(r, faults)

\* The SDK's close() methods do not fail on their own in this server: no
\* onclose callback is installed and the engine has no pending requests.
Next == Step(Profiles, NoFaults)

Spec == Init /\ [][Next]_vars

\* The pieces of a handler run as soon as their await settles, the engine
\* answers every POST it accepted, and Node emits "close" on every response
\* that has finished.  Nothing obliges a client to send or to go away.
Fairness ==
    \A r \in Reqs :
        /\ WF_vars(ConnectReturn(r, NoFaults))
        /\ WF_vars(HandleReturn(r, NoFaults))
        /\ WF_vars(StreamEnd(r))
        /\ WF_vars(ResClose(r, NoFaults))

\* the liveness property is about requests that get past the accept check
LiveNext == Step(GoodProfiles, NoFaults)

LiveSpec == Init /\ [][LiveNext]_vars /\ Fairness

\* The handler never reads Origin or Host, so a request behaves the same
\* whether or not they are allowed; the requests that are not allowed are
\* drawn in a specification of their own.
GuardNext == Step(GuardProfiles, NoFaults)

GuardSpec == Init /\ [][GuardNext]_vars

\* The server with a close() that may fail, for the properties about what
\* the teardown does in that case.
FaultNext ==
    \/ Step(GoodProfiles, AnyFault)
    \/ \E r \in DOMAIN req : DispatchFault(r)

FaultSpec == Init /\ [][FaultNext]_vars

\* The server together with the tool handlers its engine runs.
ToolNext ==
    \/ Step(GoodProfiles, NoFaults)
    \/ \E r \in DOMAIN req : ToolCall(r)

ToolSpec == Init /\ [][ToolNext]_vars

\* The server with every kind of request and every fault.
FullNext ==
    \/ Step(Profiles, AnyFault)
    \/ \E r \in DOMAIN req : DispatchFault(r)

FullSpec == Init /\ [][FullNext]_vars

\* Three requests in flight: the one that created a session and two
\* continuations.  The requests are POSTs that carry no identifier or one
\* the server issued.
RaceReqs == 1..(MaxReq + 1)

RaceInit ==
    /\ sessions = [k \in {} |-> 0]
    /\ obj = [n \in Objs |-> [init |-> FALSE, tClosed |-> FALSE,
                              sClosed |-> FALSE]]
    /\ nextId = 1
    /\ req = [r \in RaceReqs |-> IdleSlot]
    /\ hist = [n \in Objs |-> "none"]
    /\ ev = NoEvent

RaceReceive(r) ==
    /\ Receive(r, GoodProfiles, NoFaults)
    /\ ev'.method = "POST"
    /\ ev'.body \in {"init", "call"}
    /\ ev'.hdr # ForgedId

RaceNext ==
    \E r \in DOMAIN req :
        \/ RaceReceive(r)
        \/ ConnectReturn(r, NoFaults)
        \/ HandleReturn(r, NoFaults)
        \/ StreamEnd(r)
        \/ ResClose(r, NoFaults)
        \/ Abort(r, NoFaults)

RaceSpec == RaceInit /\ [][RaceNext]_vars

TypeOK ==
    /\ DOMAIN sessions \subseteq (Objs \cup {ForgedId})
    /\ nextId \in 1..(MaxIds + 1)
    /\ \A r \in DOMAIN req : req[r].pc \in {"idle", "connecting", "handling", "done"}

\* ------------------------------------------------------------- properties

Minted == 1..(nextId - 1)
IsContinuation == ev.op = "Receive" /\ ev.accept = BothTypes /\ ev.allowed
                     /\ ~(ev.method = "POST" /\ ev.body \in {"init", "malformed"})

\* C1: a handshake is answered with an identifier that was not in use
\* before, and a continuation request that carries the identifier of a
\* handshake whose response has completed is dispatched and succeeds.
C1_ContinuationSucceeds ==
    /\ (ev.op = "Receive" /\ ev.created) => (ev.sid \in Minted /\ ev.sid \notin ev.before)
    /\ (IsContinuation /\ ev.method = "POST" /\ ev.hdr \in DOMAIN hist
           /\ hist[ev.hdr] = "served")
          => ev.status = "ok"

\* C2: a continuation request whose identifier is not in the registry
\* (never issued, or torn down) is answered "Session Not Found", not with
\* the internal-error envelope, and leaves the registry as it was.
C2_UnknownSessionAnswer ==
    (IsContinuation /\ ev.hdr # NoId /\ ev.hdr \notin ev.before)
        => (ev.status = "notFound" /\ DOMAIN sessions = ev.before)

\* C3: a request of any method whose Accept header does not name both media
\* types is answered 406 and changes neither the registry nor any session.
C3_NotAcceptable ==
    [][(ev'.op = "Receive" /\ ev'.accept # BothTypes)
          => (ev'.status = "notAcceptable" /\ ~ev'.created
              /\ sessions' = sessions /\ obj' = obj /\ req' = req)]_vars

C3_Witness ==
    /\ ev.op = "Receive" /\ ev.method = "DELETE"
    /\ ev.accept = {"application/json"} /\ ev.status = "notAcceptable"
    /\ DOMAIN sessions # {}

\* C4: every key of the registry was minted by the router and holds the
\* record created with it; a request that carries an identifier which is not
\* in the registry never gets a record stored under that identifier.
C4_KeysAreMinted ==
    /\ DOMAIN sessions \subseteq Minted
    /\ \A k \in DOMAIN sessions :
          sessions[k] = [server |-> k, transport |-> k]
    /\ (ev.op = "Receive" /\ ev.hdr # NoId /\ ev.hdr \notin ev.before)
          => ev.hdr \notin DOMAIN sessions

C4_Witness ==
    /\ ev.op = "Receive" /\ ev.hdr = ForgedId /\ ev.created
    /\ ev.sid \in DOMAIN sessions /\ ev.sid # ev.hdr
    /\ ev.before # {}

\* C5: when the dispatch of a DELETE for an existing session has returned,
\* the session's transport and engine are closed and its identifier is out
\* of the registry; a later continuation with that identifier is refused.
C5_DeleteTearsDown ==
    /\ (ev.op = "HandleReturn" /\ ev.method = "DELETE" /\ ~ev.rejected)
          => (ev.sid \notin DOMAIN sessions
              /\ obj[ev.tr].tClosed /\ obj[ev.tr].sClosed)
    /\ \A n \in Objs : hist[n] = "deleted" => n \notin DOMAIN sessions
    /\ (IsContinuation /\ ev.hdr \in DOMAIN hist /\ hist[ev.hdr] = "deleted")
          => (ev.status \notin {"ok", "none"} /\ ~ev.created)

C5_Witness ==
    /\ ev.op = "HandleReturn" /\ ev.method = "DELETE" /\ ev.torn
    /\ ev.hdr = ev.sid /\ ev.sid \in ev.before
    /\ obj[ev.tr].init /\ hist[ev.tr] = "deleted"
    /\ ev.sid \notin DOMAIN sessions

\* C6: a second DELETE for an identifier that a DELETE has already torn
\* down is answered "Session Not Found" and leaves the registry unchanged.
C6_SecondDeleteUnknownSession ==
    (ev.op = "Receive" /\ ev.method = "DELETE" /\ ev.accept = BothTypes
        /\ ev.allowed /\ ev.hdr \in DOMAIN hist /\ hist[ev.hdr] = "deleted")
        => (ev.status = "notFound" /\ DOMAIN sessions = ev.before)

\* C7: a request whose Origin or Host is not on the allow-lists is refused
\* before any session is created or looked up: it creates no record and is
\* not dispatched to any session.
C7_GuardBeforeSessions ==
    (ev.op = "Receive" /\ ~ev.allowed)
        => (~ev.created /\ DOMAIN sessions = ev.before /\ ev.tr = 0)

\* C8: after a client has gone away in the middle of a request of a session
\* (the request that created it or a later one), the session's record is
\* eventually out of the registry and its transport and engine are closed.
C8_DisconnectCleansUp ==
    \A n \in Objs :
        (ev.op = "Abort" /\ ev.tr = n)
            ~> (n \notin DOMAIN sessions /\ obj[n].tClosed /\ obj[n].sClosed)

C8_Witness ==
    /\ ev.op = "Abort" /\ ev.torn /\ ev.body = "init"
    /\ ev.sid \in ev.before /\ ev.sid \notin DOMAIN sessions
    /\ obj[ev.tr].init /\ obj[ev.tr].tClosed /\ obj[ev.tr].sClosed

\* C9: a request whose body is not a valid protocol message changes neither
\* the registry nor any session, with or without a session identifier.
C9_MalformedNoMutation ==
    [][(ev'.op = "Receive" /\ ev'.body = "malformed")
          => (sessions' = sessions /\ obj' = obj)]_vars

\* C10: when a close fails during teardown (DELETE branch or close
\* observer), the identifier is still removed from the registry and the
\* failure goes no further.
C10_TeardownFaultSwallowed ==
    /\ (ev.torn /\ ev.closeFailed)
          => (ev.sid \notin DOMAIN sessions /\ ~ev.unhandled)
    /\ (ev.op = "HandleReturn" /\ ev.method = "DELETE" /\ ev.rejected)
          => ev.sid \notin DOMAIN sessions

\* C11: every record in the registry belongs to a session whose handshake
\* has been decoded successfully: a transport becomes initialized at most
\* once, and no record is in the registry while its transport has not (or
\* not yet) accepted a handshake.
C11_RecordsAreInitialized ==
    \A k \in DOMAIN sessions : obj[sessions[k].transport].init

\* the handler of request r is waiting for transport.handleRequest and the
\* transport holds its open response: the transport and engine work on it
Operating(r) == req[r].pc = "handling" /\ req[r].res = "stream"

\* C12: two continuation requests that carry the same session identifier
\* are serialized: the session's transport and engine never work on both
\* at the same time.
C12_Serialized ==
    \A r1, r2 \in DOMAIN req :
        (r1 # r2 /\ ~req[r1].creator /\ ~req[r2].creator
           /\ req[r1].hdr # NoId /\ req[r1].hdr = req[r2].hdr
           /\ req[r1].tr = req[r2].tr)
          => ~(Operating(r1) /\ Operating(r2))

\* C13: when the dispatch of a request fails, the client gets the
\* internal-error envelope if no response had begun; if a response had
\* begun, no second envelope is written and the response is terminated, so
\* that the request does not stay open.
C13_DispatchFailure ==
    [][(ev'.op = "HandleReturn" /\ ev'.rejected) =>
          \A r \in DOMAIN req :
              (req[r].pc = "handling" /\ req[r].rejects /\ req'[r] # req[r]) =>
                  IF ~req[r].sent
                  THEN ev'.status = "internalError"
                  ELSE /\ ev'.status = "none"
                       /\ (req'[r].pc = "idle"
                             \/ req'[r].res \in {"ended", "closed"})]_vars

\* C14: an identifier that has been issued and is no longer a key of the
\* registry never becomes a key again, and a session creation never yields
\* an identifier that was issued before.
C14_ClosedIsTerminal ==
    [][/\ \A k \in Minted : k \notin DOMAIN sessions => k \notin DOMAIN sessions'
       /\ (ev'.op = "Receive" /\ ev'.created) => ev'.sid \notin Minted]_vars

C14_Witness ==
    /\ ev.op = "Receive" /\ ev.created /\ ev.body = "init"
    /\ ev.hdr \in Minted /\ ev.hdr # ev.sid
    /\ ev.hdr \notin DOMAIN sessions /\ hist[ev.hdr] \in {"served", "deleted"}
    /\ ev.sid \in DOMAIN sessions

\* C15: when an upstream call inside a tool handler fails (the task it
\* waits for fails, or the call throws), the handler returns a result with
\* isError true and does not throw; the session the call belongs to stays
\* in the registry, its record, transport and engine are as they were, and
\* the request's dispatch does not fail.
C15_ToolFailureIsResult ==
    [][(ev'.op = "ToolCall" /\ ev'.call.raised # "none") =>
          /\ ev'.call.isError /\ ~ev'.call.thrown
          /\ sessions' = sessions /\ obj' = obj
          /\ ev'.sid \in DOMAIN sessions'
          /\ \A r \in DOMAIN req : ~req'[r].rejects]_vars

C15_Witness ==
    /\ ev.op = "ToolCall" /\ ev.call.tool = "runway.tasks.retrieve"
    /\ ev.call.raised = "TaskFailedError" /\ ev.call.isError
    /\ ev.sid \in DOMAIN sessions /\ ev.hdr = ev.sid

\* C16: every request gets exactly one response: no step of the handler
\* starts a second response for its request, and when the handler is over
\* (406, normal return or catch block) one response has been started.
C16_ExactlyOneResponse ==
    (ev.op \in {"Receive", "ConnectReturn", "HandleReturn"}) =>
        (ev.responses <= 1 /\ (ev.finished => ev.responses = 1))

C16_Witness ==
    /\ ev.op = "HandleReturn" /\ ev.rejected /\ ev.finished
    /\ ev.status = "none" /\ ev.responses = 1

\* C18: session resolution.  A request that reaches it (it has passed the
\* accept check) creates a record, under a fresh identifier that is the one
\* set in the Mcp-Session-Id response header, exactly when it has no
\* session header or is an initialize POST; otherwise the registry gets no
\* new entry.
C18_SessionResolution ==
    (ev.op = "Receive" /\ ev.accept = BothTypes) =>
        /\ ev.created <=>
              (ev.hdr = NoId \/ (ev.method = "POST" /\ ev.body = "init"))
        /\ ev.created =>
              /\ ev.sid = nextId - 1 /\ ev.sid \notin ev.before
              /\ DOMAIN sessions = ev.before \cup {ev.sid}
        /\ ~ev.created => DOMAIN sessions = ev.before

C18_Witness ==
    /\ ev.op = "Receive" /\ ev.created /\ ev.method = "POST" /\ ev.body = "init"
    /\ ev.hdr \in ev.before /\ ev.hdr \in DOMAIN sessions
    /\ ev.sid # ev.hdr /\ ev.sid \in DOMAIN sessions

\* C19: a record is in the registry only while the response of the request
\* that created it has not emitted close; when that response closes, after
\* completing or after a disconnect, the session's transport and engine
\* are closed and its identifier is out of the registry, DELETE or not.
C19_RecordEndsWithResponse ==
    /\ \A k \in DOMAIN sessions :
          \E r \in DOMAIN req :
              /\ req[r].pc # "idle" /\ req[r].sid = k /\ req[r].hdr # k
              /\ req[r].res # "closed"
    /\ (ev.op \in {"ResClose", "Abort"} /\ ev.torn) =>
          /\ ev.sid \notin DOMAIN sessions
          /\ obj[ev.tr].tClosed /\ obj[ev.tr].sClosed

C19_Witness ==
    /\ ev.op = "ResClose" /\ ev.torn /\ ev.body = "init"
    /\ ev.sid \in ev.before /\ ev.sid \notin DOMAIN sessions
    /\ hist[ev.tr] = "served"

\* C20: a step that concerns one session (a request dispatched to it, its
\* DELETE teardown, its close observer, or a handshake that carries its
\* identifier and creates another session) leaves every other registry
\* entry and every other session's transport and engine as they were; the
\* handshake leaves the entry of the identifier it carried as it was too.
C20_NoCrossSessionMutation ==
    [][/\ \A k \in DOMAIN sessions :
             k # ev'.sid => (k \in DOMAIN sessions' /\ sessions'[k] = sessions[k])
       /\ \A n \in Objs : n # ev'.tr => obj'[n] = obj[n]
       /\ (ev'.op = "Receive" /\ ev'.created /\ ev'.hdr \in DOMAIN sessions) =>
             (ev'.hdr \in DOMAIN sessions'
                /\ sessions'[ev'.hdr] = sessions[ev'.hdr]
                /\ obj'[sessions[ev'.hdr].transport] = obj[sessions[ev'.hdr].transport])]_vars

C20_Witness ==
    /\ ev.op = "HandleReturn" /\ ev.method = "DELETE" /\ ev.torn
    /\ ev.sid \in ev.before /\ ev.sid \notin DOMAIN sessions
    /\ \E k \in DOMAIN sessions : k # ev.sid /\ k \in ev.before

\* C21: when the handler of a request that created a session resumes after
\* the awaited connect, the identifier it stored before the await is still
\* in the registry, whatever close events and other requests came in
\* between, and the lookup of the dispatch finds the record.
C21_LookupFindsStoredRecord ==
    (ev.op = "ConnectReturn") =>
        (ev.sid \in ev.before /\ ev.status # "internalError")

\* C22: a DELETE without session header creates a session under a fresh
\* identifier, and when its handler returns normally it has torn that same
\* session down: the identifier it added is out of the registry again, the
\* session's transport and engine are closed, and no other key has changed.
C22_HeaderlessDeleteNetsOut ==
    /\ (ev.op = "Receive" /\ ev.method = "DELETE" /\ ev.hdr = NoId
           /\ ev.accept = BothTypes) =>
          /\ ev.created /\ ev.sid \notin ev.before
          /\ DOMAIN sessions = ev.before \cup {ev.sid}
    /\ (ev.op = "HandleReturn" /\ ev.method = "DELETE" /\ ev.hdr = NoId
           /\ ~ev.rejected) =>
          /\ ev.torn /\ ev.sid \in Minted
          /\ DOMAIN sessions = ev.before \ {ev.sid}
          /\ obj[ev.tr].tClosed /\ obj[ev.tr].sClosed

C22_Witness ==
    /\ ev.op = "HandleReturn" /\ ev.method = "DELETE" /\ ev.hdr = NoId
    /\ ev.torn /\ ev.finished /\ ev.responses = 1
    /\ ev.sid \in ev.before /\ ev.sid \notin DOMAIN sessions
    /\ ~obj[ev.tr].init

\* C23: each of the four tools that can wait for a task's output, called
\* with wait true, returns {error: "TaskFailed", details} when the wait
\* raises TaskFailedError and the text "Error: <message>" when anything
\* else is raised, so that the two failures have different shapes.
C23_FailureShapesDistinct ==
    (ev.op = "ToolCall" /\ ev.call.wait
        /\ ev.call.tool \in {"runway.text_to_image", "runway.image_to_video",
                              "runway.video_upscale", "runway.tasks.retrieve"}) =>
        /\ ev.call.raised = "TaskFailedError" => ev.call.shape = "TaskFailed"
        /\ ev.call.raised = "Error" => ev.call.shape = "ErrorText"
====
